---- MODULE Spec2Model ----
(***************************************************************************)
(* A model of tempo's template parser, parse_str (tempo/src/parse.rs).     *)
(*                                                                         *)
(* The parser is a pipeline of five stages over one input string:          *)
(*   scan    the regex "<%.*?%>" finds the code spans                      *)
(*   fill    text fragments are interpolated between the code spans        *)
(*   filter  fragments of length zero are removed                          *)
(*   trim    the delimiters are cut off the code fragments                 *)
(*   build   each fragment becomes an item of the Ast                      *)
(* Each stage is one action; the input is drawn in Init.  A string is a    *)
(* sequence of one-character strings, and offsets are 0-based as in the    *)
(* source: the half-open span [low, high) of s is SubSeq(s, low+1, high).  *)
(***************************************************************************)
EXTENDS Integers, Sequences, FiniteSets, TLC

(* Bounds of the model. *)
MaxLen == 6
MaxBody == 0
MaxGap == 1

(* The characters inputs are made of: the four the parser looks at, the   *)
(* line break (which "." of the regex does not match) and a plain letter. *)
Alphabet == {"<", "%", ">", "=", "\n", "a"}

OPEN == <<"<", "%">>
CLOSE == <<"%", ">">>
SIGIL == <<"=">>

RECURSIVE Strs(_)
Strs(n) == IF n = 0 THEN {<<>>}
           ELSE LET shorter == Strs(n - 1)
                IN  shorter \cup {Append(s, c) : s \in {t \in shorter : Len(t) = n - 1}, c \in Alphabet}

(* A code block with a body of at most MaxBody characters. *)
Directives == {OPEN \o b \o CLOSE : b \in Strs(MaxBody)}

(***************************************************************************)
(* Strings                                                                 *)
(***************************************************************************)

(* input[low..high] *)
Slice(s, low, high) == SubSeq(s, low + 1, high)

(* s[at..].starts_with(m) *)
StartsWithAt(s, at, m) ==
    /\ at + Len(m) <= Len(s)
    /\ \A k \in 1..Len(m) : s[at + k] = m[k]

(***************************************************************************)
(* The scanner: Regex::new("<%.*?%>").find_iter(input)                     *)
(***************************************************************************)

NoMatch == -1

(* The lazy ".*?" after an opening marker, with the cursor at offset k:    *)
(* the match ends at the first "%>" it meets, "." consumes any character   *)
(* but the line break, and the attempt fails at a line break or at the     *)
(* end of the input.  The result is the end offset of the match.           *)
RECURSIVE LazyBody(_, _)
LazyBody(s, k) ==
    IF StartsWithAt(s, k, CLOSE) THEN k + 2
    ELSE IF k >= Len(s) THEN NoMatch
    ELSE IF s[k + 1] = "\n" THEN NoMatch
    ELSE LazyBody(s, k + 1)

(* Variants of MatchAt: the search for the closing marker starts inside    *)
(* the opening marker, so that "<%>" matches; a code block left open       *)
(* matches up to the end of the input.                                     *)
MatchAtOverlapping(s, at) ==
    IF StartsWithAt(s, at, OPEN) THEN LazyBody(s, at + 1) ELSE NoMatch

MatchAtUnterminated(s, at) ==
    IF StartsWithAt(s, at, OPEN)
    THEN IF LazyBody(s, at + 2) = NoMatch THEN Len(s) ELSE LazyBody(s, at + 2)
    ELSE NoMatch

(* One attempt of the regex anchored at offset at. *)
MatchAt(s, at) ==
    IF StartsWithAt(s, at, OPEN) THEN LazyBody(s, at + 2) ELSE NoMatch

(* find_iter: the leftmost match at or after offset from, then the         *)
(* leftmost match after its end, and so on; matches never overlap.         *)
RECURSIVE FindIter(_, _)
FindIter(s, from) ==
    IF from >= Len(s) THEN <<>>
    ELSE LET end == MatchAt(s, from)
         IN  IF end = NoMatch THEN FindIter(s, from + 1)
             ELSE <<[low_index |-> from, high_index |-> end]>> \o FindIter(s, end)

(* code_spans, then code_fragments *)
CodeSpans(s) == FindIter(s, 0)

CodeFragments(spans) ==
    [k \in 1..Len(spans) |-> [kind |-> "Code", span |-> spans[k]]]

(***************************************************************************)
(* The gap filler: fill_in_text_fragments                                  *)
(***************************************************************************)

TextFragment(low, high) ==
    [kind |-> "Text", span |-> [low_index |-> low, high_index |-> high]]

(* The flat_map closure, applied to code_fragments[k], [k+1], ... with the *)
(* captured current_index; acc is what has been collected so far.  The     *)
(* assert! of the closure aborts the parse.                                *)
RECURSIVE FillLoop(_, _, _, _)
FillLoop(code_fragments, k, current_index, acc) ==
    IF k > Len(code_fragments)
    THEN [panic |-> FALSE, fragments |-> acc, current_index |-> current_index]
    ELSE LET code_fragment == code_fragments[k]
             high_index == code_fragment.span.high_index
         IN  IF ~(code_fragment.span.low_index >= current_index)
             THEN [panic |-> TRUE, fragments |-> acc, current_index |-> current_index]
             ELSE LET fragments ==
                          IF code_fragment.span.low_index = current_index
                          THEN <<code_fragment>>
                          ELSE <<TextFragment(current_index, code_fragment.span.low_index),
                                 code_fragment>>
                  IN  FillLoop(code_fragments, k + 1, high_index, acc \o fragments)

(* Variant of fill_in_text_fragments: the text after the last code block   *)
(* is not inserted.                                                        *)
fill_in_text_fragments_no_trailing(s, code_fragments) ==
    FillLoop(code_fragments, 1, 0, <<>>)

fill_in_text_fragments(s, code_fragments) ==
    LET r == FillLoop(code_fragments, 1, 0, <<>>)
    IN  IF r.panic THEN r
        ELSE IF Len(s) # 0 /\ r.current_index # Len(s)
        THEN [r EXCEPT !.fragments = Append(@, TextFragment(r.current_index, Len(s)))]
        ELSE r

(* The branch of parse_str on code_fragments.is_empty(). *)
AllFragments(s, code_fragments) ==
    IF code_fragments # <<>>
    THEN fill_in_text_fragments(s, code_fragments)
    ELSE [panic |-> FALSE, fragments |-> <<TextFragment(0, Len(s))>>, current_index |-> 0]

(***************************************************************************)
(* The filter and the trimmer                                              *)
(***************************************************************************)

(* Variant of remove_empty_fragments: a code fragment is judged on what    *)
(* is left of it once its delimiters are trimmed.                          *)
remove_empty_fragments_trimmed(fragments) ==
    SelectSeq(fragments,
              LAMBDA frag : IF frag.kind = "Code"
                            THEN frag.span.low_index + 2 # frag.span.high_index - 2
                            ELSE frag.span.low_index # frag.span.high_index)

remove_empty_fragments(fragments) ==
    SelectSeq(fragments, LAMBDA frag : frag.span.low_index # frag.span.high_index)

(* high_index -= 2 on a usize below 2 *)
TrimUnderflows(fragments) ==
    \E k \in 1..Len(fragments) :
        fragments[k].kind = "Code" /\ fragments[k].span.high_index < 2

(* Variant of trim_delimiters_from_code_frags: one character of the        *)
(* closing marker is left in the fragment.                                 *)
trim_delimiters_short(fragments) ==
    [k \in 1..Len(fragments) |->
        IF fragments[k].kind = "Code"
        THEN [fragments[k] EXCEPT !.span.low_index = @ + 2, !.span.high_index = @ - 1]
        ELSE fragments[k]]

trim_delimiters_from_code_frags(fragments) ==
    [k \in 1..Len(fragments) |->
        IF fragments[k].kind = "Code"
        THEN [fragments[k] EXCEPT !.span.low_index = @ + 2, !.span.high_index = @ - 2]
        ELSE fragments[k]]

(***************************************************************************)
(* The item builder                                                        *)
(***************************************************************************)

(* input[low..high] panics unless low <= high <= input.len() *)
SliceInBounds(s, frag) ==
    /\ 0 <= frag.span.low_index
    /\ frag.span.low_index <= frag.span.high_index
    /\ frag.span.high_index <= Len(s)

(* The closure of the final map: the fragment's text, the "=" test and the *)
(* removal of the "=" come before the match on the kind, so they are       *)
(* applied to text fragments as well as to code fragments.                 *)
(* (ItemKeepSigil is the variant that tests for the "=" and leaves it.)    *)
ItemKeepSigil(s, frag) ==
    LET whole == Slice(s, frag.span.low_index, frag.span.high_index)
        print_result == StartsWithAt(whole, 0, SIGIL)
    IN  IF frag.kind = "Text"
        THEN [kind |-> "Text", text |-> whole]
        ELSE [kind |-> "Code", source |-> whole, print_result |-> print_result]

Item(s, frag) ==
    LET whole == Slice(s, frag.span.low_index, frag.span.high_index)
        print_result == StartsWithAt(whole, 0, SIGIL)
        frag_text == IF print_result THEN Tail(whole) ELSE whole
    IN  IF frag.kind = "Text"
        THEN [kind |-> "Text", text |-> frag_text]
        ELSE [kind |-> "Code", source |-> frag_text, print_result |-> print_result]

Items(s, fragments) == [k \in 1..Len(fragments) |-> Item(s, fragments[k])]

(***************************************************************************)
(* parse_str as one function: whether it aborts, and the items of the Ast  *)
(* it returns if it does not                                               *)
(***************************************************************************)

Panic == "panic"

parse_str(s) ==
    LET filled == AllFragments(s, CodeFragments(CodeSpans(s)))
        kept == remove_empty_fragments(filled.fragments)
        trimmed == trim_delimiters_from_code_frags(kept)
    IN  IF filled.panic \/ TrimUnderflows(kept)
        THEN [panic |-> TRUE, items |-> <<>>]
        ELSE IF \E k \in 1..Len(trimmed) : ~SliceInBounds(s, trimmed[k])
        THEN [panic |-> TRUE, items |-> <<>>]
        ELSE [panic |-> FALSE, items |-> Items(s, trimmed)]

(***************************************************************************)
(* The parse as a state machine                                            *)
(***************************************************************************)

VARIABLES
    input,           \* the argument of parse_str
    pc,              \* the stage to run next; "done" once Ok(ast) is returned
    code_fragments,  \* the scanner's matches
    fragments,       \* the fragment list handed from stage to stage
    items            \* ast.items

vars == <<input, pc, code_fragments, fragments, items>>

(* The inputs: every string of at most MaxLen characters, and, so that     *)
(* inputs with two code blocks occur, two code blocks with bodies of at    *)
(* most MaxBody characters, each followed by a string of at most MaxGap    *)
(* characters.                                                             *)
Init ==
    /\ \/ input \in Strs(MaxLen)
       \/ \E d \in Directives, g \in Strs(MaxGap), e \in Directives, t \in Strs(MaxGap) :
              input = d \o g \o e \o t
    /\ pc = "scan"
    /\ code_fragments = <<>>
    /\ fragments = <<>>
    /\ items = <<>>

Scan ==
    /\ pc = "scan"
    /\ code_fragments' = CodeFragments(CodeSpans(input))
    /\ pc' = "fill"
    /\ UNCHANGED <<input, fragments, items>>

Fill ==
    /\ pc = "fill"
    /\ LET r == AllFragments(input, code_fragments)
       IN  /\ fragments' = r.fragments
           /\ pc' = IF r.panic THEN Panic ELSE "filter"
    /\ UNCHANGED <<input, code_fragments, items>>

Filter ==
    /\ pc = "filter"
    /\ fragments' = remove_empty_fragments(fragments)
    /\ pc' = "trim"
    /\ UNCHANGED <<input, code_fragments, items>>

(* A subtraction below zero aborts the parse: with overflow checks at the  *)
(* subtraction, without them at the slice the item builder takes with the  *)
(* wrapped index.                                                          *)
Trim ==
    /\ pc = "trim"
    /\ IF TrimUnderflows(fragments)
       THEN /\ pc' = Panic
            /\ UNCHANGED fragments
       ELSE /\ fragments' = trim_delimiters_from_code_frags(fragments)
            /\ pc' = "build"
    /\ UNCHANGED <<input, code_fragments, items>>

Build ==
    /\ pc = "build"
    /\ IF \E k \in 1..Len(fragments) : ~SliceInBounds(input, fragments[k])
       THEN /\ pc' = Panic
            /\ UNCHANGED items
       ELSE /\ items' = Items(input, fragments)
            /\ pc' = "done"
    /\ UNCHANGED <<input, code_fragments, fragments>>

Next == Scan \/ Fill \/ Filter \/ Trim \/ Build

Spec == Init /\ [][Next]_vars

(***************************************************************************)
(* Vocabulary of the properties                                            *)
(***************************************************************************)

Occurrences(s, m) == {at \in 0..(Len(s) - Len(m)) : StartsWithAt(s, at, m)}

Contains(s, m) == Occurrences(s, m) # {}

CodeItems(its) == SelectSeq(its, LAMBDA it : it.kind = "Code")

(* The positions of the Code items in its, in order. *)
CodeIdx(its) ==
    SelectSeq([k \in 1..Len(its) |-> k], LAMBDA k : its[k].kind = "Code")

(* The text a scanner match holds between its two markers. *)
TrimmedContent(s, frag) ==
    Slice(s, frag.span.low_index + 2, frag.span.high_index - 2)

HasSigil(content) == content # <<>> /\ content[1] = "="

Done == pc = "done"

(***************************************************************************)
(* C1.  A non-empty input with neither "<%" nor "%>" in it parses to       *)
(* exactly one Text item whose content is the whole input.                 *)
(***************************************************************************)
C1_PlainInputIsOneVerbatimText ==
    (Done /\ input # <<>> /\ ~Contains(input, OPEN) /\ ~Contains(input, CLOSE))
        => items = <<[kind |-> "Text", text |-> input]>>

(***************************************************************************)
(* C2.  No item comes from a zero-length region: after the filter no       *)
(* fragment has low = high, no Text item is empty, the empty input gives   *)
(* no item, and two code regions that touch give two consecutive Code      *)
(* items.                                                                  *)
(***************************************************************************)
C2_NoItemFromEmptyRegion ==
    /\ pc = "trim" =>
          \A k \in 1..Len(fragments) :
              fragments[k].span.low_index # fragments[k].span.high_index
    /\ Done =>
          /\ \A k \in 1..Len(items) : items[k].kind = "Text" => items[k].text # <<>>
          /\ input = <<>> => items = <<>>
          /\ Len(CodeIdx(items)) = Len(code_fragments)
          /\ \A k \in 1..(Len(code_fragments) - 1) :
                code_fragments[k].span.high_index = code_fragments[k + 1].span.low_index
                    => CodeIdx(items)[k + 1] = CodeIdx(items)[k] + 1

(***************************************************************************)
(* C3.  The fragments the gap filler hands to the filter are sorted by     *)
(* low, do not overlap, each ends where the next begins, the first begins  *)
(* at 0 and the last ends at the input length.                             *)
(***************************************************************************)
C3_GapFillCoversInput ==
    pc = "filter" =>
        LET n == Len(fragments)
            low(k) == fragments[k].span.low_index
            high(k) == fragments[k].span.high_index
        IN  /\ n >= 1
            /\ low(1) = 0
            /\ high(n) = Len(input)
            /\ \A k \in 1..n : low(k) <= high(k)
            /\ \A k \in 1..(n - 1) : low(k) <= low(k + 1) /\ high(k) = low(k + 1)
            /\ \A j, k \in 1..n : j < k => high(j) <= low(k)
            /\ (code_fragments = <<>>) => n = 1

C3_Witness ==
    /\ pc = "filter"
    /\ Len(code_fragments) = 2
    /\ Len(fragments) = 4
    /\ fragments[4].kind = "Text"

(***************************************************************************)
(* C4.  A code region may span lines: "<%" body "%>", with a line break    *)
(* in body and no "%>" in body, is one scanner match over the whole input  *)
(* and parses to exactly one Code item whose source is body less a leading *)
(* "=".                                                                    *)
(***************************************************************************)
C4_CodeSpansLines ==
    LET body == Slice(input, 2, Len(input) - 2)
    IN  (/\ Done
         /\ Len(input) >= 4
         /\ StartsWithAt(input, 0, OPEN)
         /\ StartsWithAt(input, Len(input) - 2, CLOSE)
         /\ Contains(body, <<"\n">>)
         /\ ~Contains(body, CLOSE))
        => /\ code_fragments =
                <<[kind |-> "Code", span |-> [low_index |-> 0, high_index |-> Len(input)]]>>
           /\ items = <<[kind |-> "Code",
                         source |-> IF HasSigil(body) THEN Tail(body) ELSE body,
                         print_result |-> HasSigil(body)]>>

(***************************************************************************)
(* C5.  For every Code item: print_result is true exactly when the text    *)
(* between the markers of its match begins with "="; the source is that    *)
(* text less exactly one leading "=" when it is true, and that text        *)
(* unchanged when it is false.                                             *)
(***************************************************************************)
C5_SigilOfCodeItems ==
    Done =>
        /\ Len(CodeItems(items)) = Len(code_fragments)
        /\ \A k \in 1..Len(code_fragments) :
              LET content == TrimmedContent(input, code_fragments[k])
                  it == CodeItems(items)[k]
              IN  /\ it.print_result <=> HasSigil(content)
                  /\ it.print_result => it.source = Tail(content)
                  /\ ~it.print_result => it.source = content

(* A Code item "<%==%>": printed, and the second "=" is kept. *)
C5_Witness ==
    /\ Done
    /\ \E k \in 1..Len(items) :
          /\ items[k].kind = "Code"
          /\ items[k].print_result
          /\ items[k].source = SIGIL

(***************************************************************************)
(* C6.  Re-serialising the items (Text verbatim, Code as "<%" source "%>") *)
(* and parsing again gives the same items.  Stated here of the documents   *)
(* that hold Code items only, where it already fails.                      *)
(***************************************************************************)
Rewrap(it) ==
    IF it.kind = "Text" THEN it.text ELSE OPEN \o it.source \o CLOSE

RECURSIVE Reserialize(_)
Reserialize(its) ==
    IF its = <<>> THEN <<>> ELSE Rewrap(Head(its)) \o Reserialize(Tail(its))

RewrapWithSigil(it) ==
    IF it.kind = "Text" THEN it.text
    ELSE OPEN \o (IF it.print_result THEN SIGIL ELSE <<>>) \o it.source \o CLOSE

RECURSIVE ReserializeWithSigil(_)
ReserializeWithSigil(its) ==
    IF its = <<>> THEN <<>>
    ELSE RewrapWithSigil(Head(its)) \o ReserializeWithSigil(Tail(its))

C7_ParseAlwaysSucceeds ==
    /\ pc # Panic
    /\ pc = "fill" =>
          \A k \in 1..Len(code_fragments) :
              code_fragments[k].span.low_index >=
                  (IF k = 1 THEN 0 ELSE code_fragments[k - 1].span.high_index)
    /\ pc = "trim" =>
          \A k \in 1..Len(fragments) :
              fragments[k].kind = "Code" => fragments[k].span.high_index - 2 >= 0
    /\ pc = "build" =>
          \A k \in 1..Len(fragments) : SliceInBounds(input, fragments[k])

C7_Witness ==
    /\ Done
    /\ Len(code_fragments) = 2
    /\ Len(items) = 4

(***************************************************************************)
(* C8.  Every code region ends at the first "%>" at or after the end of    *)
(* its "<%", no Code source contains "%>", and the characters between the  *)
(* end of a code region and the next code region (or the end of the input) *)
(* are, when there are any, the content of a Text item that follows the    *)
(* Code item.                                                              *)
(***************************************************************************)
C8_ShortestMatch ==
    Done =>
        /\ \A k \in 1..Len(code_fragments) :
              LET low == code_fragments[k].span.low_index
                  high == code_fragments[k].span.high_index
              IN  /\ StartsWithAt(input, high - 2, CLOSE)
                  /\ \A j \in (low + 2)..(high - 3) : ~StartsWithAt(input, j, CLOSE)
        /\ \A k \in 1..Len(items) :
              items[k].kind = "Code" => ~Contains(items[k].source, CLOSE)
        /\ Len(CodeIdx(items)) = Len(code_fragments)
        /\ \A k \in 1..Len(code_fragments) :
              LET high == code_fragments[k].span.high_index
                  next == IF k < Len(code_fragments)
                          THEN code_fragments[k + 1].span.low_index
                          ELSE Len(input)
                  at == CodeIdx(items)[k] + 1
              IN  next > high =>
                      /\ at <= Len(items)
                      /\ items[at] = [kind |-> "Text", text |-> Slice(input, high, next)]

(***************************************************************************)
(* C9.  Every scanner match is at least 4 long, survives the filter and    *)
(* has low <= high once trimmed; the Code items are the scanner matches,   *)
(* one each and in match order; "<%%>" gives one Code item with an empty   *)
(* source and print_result false.                                          *)
(***************************************************************************)
C9_EveryMatchBecomesACodeItem ==
    /\ \A k \in 1..Len(code_fragments) :
          code_fragments[k].span.high_index - code_fragments[k].span.low_index >= 4
    /\ pc = "trim" =>
          SelectSeq(fragments, LAMBDA frag : frag.kind = "Code") = code_fragments
    /\ pc = "build" =>
          \A k \in 1..Len(fragments) :
              fragments[k].kind = "Code"
                  => fragments[k].span.low_index <= fragments[k].span.high_index
    /\ Done =>
          /\ Len(CodeItems(items)) = Len(code_fragments)
          /\ \A k \in 1..Len(code_fragments) :
                LET it == CodeItems(items)[k]
                IN  (IF it.print_result THEN SIGIL ELSE <<>>) \o it.source
                        = TrimmedContent(input, code_fragments[k])
          /\ input = OPEN \o CLOSE
                => items = <<[kind |-> "Code", source |-> <<>>, print_result |-> FALSE]>>

(* Two empty directives, the second right after the first. *)
C9_Witness ==
    /\ Done
    /\ Len(code_fragments) = 2
    /\ code_fragments[1].span.high_index = 4
    /\ code_fragments[2].span.low_index = 4
    /\ code_fragments[2].span.high_index = 8
    /\ items[1] = [kind |-> "Code", source |-> <<>>, print_result |-> FALSE]
    /\ items[2] = [kind |-> "Code", source |-> <<>>, print_result |-> FALSE]

(***************************************************************************)
(* C10.  A non-empty input in which no "<%" is followed by a "%>" has no   *)
(* scanner match, parses without abort, and gives no Code item and exactly *)
(* one Text item, whose content is an end piece of the input with every    *)
(* "<%" and "%>" of the input in it.                                       *)
(***************************************************************************)
NoOpenThenClose(s) ==
    \A i \in Occurrences(s, OPEN) : \A j \in Occurrences(s, CLOSE) : j < i + 2

C10_UnmatchedMarkersAreText ==
    (input # <<>> /\ NoOpenThenClose(input)) =>
        /\ pc # Panic
        /\ pc # "scan" => code_fragments = <<>>
        /\ Done =>
              /\ Len(items) = 1
              /\ items[1].kind = "Text"
              /\ \E d \in 0..Len(input) : items[1].text = Slice(input, d, Len(input))
              /\ Cardinality(Occurrences(items[1].text, OPEN))
                     = Cardinality(Occurrences(input, OPEN))
              /\ Cardinality(Occurrences(items[1].text, CLOSE))
                     = Cardinality(Occurrences(input, CLOSE))

(* A closing marker, then an opening marker that is never closed. *)
C10_Witness ==
    /\ Done
    /\ NoOpenThenClose(input)
    /\ Contains(input, OPEN)
    /\ Contains(input, CLOSE)
    /\ Len(items) = 1
    /\ Contains(items[1].text, OPEN)
    /\ Contains(items[1].text, CLOSE)

====
